---- MODULE Spec2Model ----
(***************************************************************************)
(* Model of server/campsites_api/utils/process_campsites_data.py: the four *)
(* field decoders of the campsites API.                                    *)
(*                                                                         *)
(* A Python str is a sequence of one-character strings, None is the empty  *)
(* set and a present value v is the singleton {v}, so that a field holding *)
(* None can be compared with a field holding a bool, an int or a str.      *)
(* A dict is a function from its keys; a call either returns a value or    *)
(* raises an exception.                                                    *)
(***************************************************************************)
EXTENDS Integers, Sequences, FiniteSets, TLC

\* call: the decoder that was called, "none" before the call
\* arg: the raw value passed to it
\* ret_*: the value each decoder returned, None before its return
\* raised: the exception that ended the call, None when it returned
VARIABLES call, arg, ret_phone_number, ret_dates, ret_country, ret_amenities, raised

vars == <<call, arg, ret_phone_number, ret_dates, ret_country, ret_amenities, raised>>

None == {}

Some(v) == {v}

Val(o) == CHOOSE v \in o : TRUE

(***************************************************************************)
(* Bounds of the enumerated inputs.                                        *)
(***************************************************************************)
MaxPhoneLen == 4

MaxCodeLen == 2

MaxWords == 3

MaxTokens == 2

MaxOverlapping == 3

(***************************************************************************)
(* Python str primitives used by the decoders.                             *)
(***************************************************************************)
Whitespace == {" ", "\t", "\n", "\r", "\f"}

AlnumChars ==
  {"0","1","2","3","4","5","6","7","8","9",
   "A","B","C","D","E","F","G","H","I","J","K","L","M",
   "N","O","P","Q","R","S","T","U","V","W","X","Y","Z",
   "a","b","c","d","e","f","g","h","i","j","k","l","m",
   "n","o","p","q","r","s","t","u","v","w","x","y","z"}

\* sub in s, for two str
StrIn(sub, s) ==
  \E i \in 1..(Len(s) - Len(sub) + 1) : SubSeq(s, i, i + Len(sub) - 1) = sub

\* index of the first occurrence of sub in s, 0 when there is none
StrFind(sub, s) ==
  IF StrIn(sub, s)
  THEN CHOOSE i \in 1..(Len(s) - Len(sub) + 1) :
         /\ SubSeq(s, i, i + Len(sub) - 1) = sub
         /\ \A j \in 1..(i - 1) : SubSeq(s, j, j + Len(sub) - 1) # sub
  ELSE 0

\* s.replace(old, new) for one-character old and new
StrReplace(s, old, new) == [i \in 1..Len(s) |-> IF s[i] = old THEN new ELSE s[i]]

\* s.split(sep) for a non-empty sep: always at least one piece, pieces may be empty
RECURSIVE StrSplit(_, _)
StrSplit(s, sep) ==
  LET i == StrFind(sep, s)
  IN IF i = 0
     THEN <<s>>
     ELSE <<SubSeq(s, 1, i - 1)>> \o StrSplit(SubSeq(s, i + Len(sep), Len(s)), sep)

RECURSIVE StrLStrip(_)
StrLStrip(s) ==
  IF s # <<>> /\ Head(s) \in Whitespace THEN StrLStrip(Tail(s)) ELSE s

RECURSIVE StrRStrip(_)
StrRStrip(s) ==
  IF s # <<>> /\ s[Len(s)] \in Whitespace
  THEN StrRStrip(SubSeq(s, 1, Len(s) - 1))
  ELSE s

\* s.strip()
StrStrip(s) == StrRStrip(StrLStrip(s))

(***************************************************************************)
(* Outcome of a call: a returned value, or the exception it raised.        *)
(***************************************************************************)
Return(v) == [exc |-> None, value |-> v]

Raise(e) == [exc |-> Some(e), value |-> None]

(***************************************************************************)
(* process_campsites_dates                                                 *)
(***************************************************************************)
ALL_YEAR == <<"a","l","l"," ","y","e","a","r">>

\* dates_map.keys(), in insertion order
dates_map_keys ==
  << <<"j","a","n">>, <<"f","e","b">>, <<"m","a","r">>, <<"a","p","r">>,
     <<"m","a","y">>, <<"j","u","n">>, <<"j","u","l">>, <<"a","u","g">>,
     <<"s","e","p">>, <<"o","c","t">>, <<"n","o","v">>, <<"d","e","c">> >>

dates_map ==
  [month \in {dates_map_keys[i] : i \in 1..Len(dates_map_keys)} |->
     CHOOSE i \in 1..Len(dates_map_keys) : dates_map_keys[i] = month]

\* x = arr.pop(0) repeated while x is not a key of dates_map and arr is not
\* empty; str is the last popped element, arr what is left of the list
RECURSIVE PopUntilMonth(_, _)
PopUntilMonth(str, arr) ==
  IF str \notin DOMAIN dates_map /\ Len(arr) > 0
  THEN PopUntilMonth(Head(arr), Tail(arr))
  ELSE [str |-> str, arr |-> arr]

\* for month in dates_map.keys(): if <test>: field = dates_map[month]
\* hits are the positions of the months passing the test; the assignment of
\* the last of them is the one that stays
AssignMonth(hits, old) ==
  IF hits = {}
  THEN old
  ELSE Some(dates_map[dates_map_keys[CHOOSE i \in hits : \A j \in hits : j <= i]])

\* the open month assigned on containment, as the close month is
OpenTest_contains(month, open_str) == StrIn(month, open_str)

\* the open month is assigned on equality with the popped string
OpenTest(month, open_str) == month = open_str

\* the close month is assigned on containment in the popped string
CloseTest(month, close_str) == StrIn(month, close_str)

\* lines 72-80: the close-month half, entered with a non-empty list
dates_close(dates_dict, date_open_arr) ==
  LET popped == PopUntilMonth(Head(date_open_arr), Tail(date_open_arr))
      close_str == popped.str
      hits == {i \in 1..Len(dates_map_keys) : CloseTest(dates_map_keys[i], close_str)}
  IN Return([dates_dict EXCEPT !.month_close = AssignMonth(hits, @)])

\* lines 59-70: the open-month half
dates_open(dates_dict, date_open_arr) ==
  IF date_open_arr = <<>>
  THEN Raise("IndexError")
  ELSE LET popped == PopUntilMonth(Head(date_open_arr), Tail(date_open_arr))
           open_str == popped.str
           hits == {i \in 1..Len(dates_map_keys) : OpenTest(dates_map_keys[i], open_str)}
           d == [dates_dict EXCEPT !.month_open = AssignMonth(hits, @)]
       IN IF Len(popped.arr) = 0
          THEN Return(d)
          ELSE dates_close(d, popped.arr)

process_campsites_dates(date_open_str) ==
  LET dates_dict == [month_open |-> None, month_close |-> None]
  IN IF date_open_str = None
     THEN Return(dates_dict)
     ELSE IF Val(date_open_str) = ALL_YEAR
          THEN Return([month_open |-> Some(1), month_close |-> Some(12)])
          ELSE dates_open(dates_dict,
                          StrSplit(StrReplace(Val(date_open_str), "-", " "), <<" ">>))

(***************************************************************************)
(* process_campsites_amenities                                             *)
(***************************************************************************)
Digits == <<"0","1","2","3","4","5","6","7","8","9">>

DigitValue(c) == (CHOOSE i \in 1..Len(Digits) : Digits[i] = c) - 1

IsDigit(c) == \E i \in 1..Len(Digits) : Digits[i] = c

\* the text of an int literal without surrounding whitespace and sign
IntBody(s) ==
  LET t == StrStrip(s)
  IN IF t # <<>> /\ t[1] \in {"+", "-"} THEN Tail(t) ELSE t

\* int(s) accepts optional whitespace around an optional sign followed by
\* decimal digits, single underscores allowed between two digits
IntAccepts(s) ==
  LET u == IntBody(s)
  IN /\ u # <<>>
     /\ \A i \in 1..Len(u) : IsDigit(u[i]) \/ u[i] = "_"
     /\ u[1] # "_"
     /\ u[Len(u)] # "_"
     /\ \A i \in 1..(Len(u) - 1) : ~(u[i] = "_" /\ u[i + 1] = "_")

RECURSIVE DecimalValue(_)
DecimalValue(u) ==
  IF u = <<>>
  THEN 0
  ELSE IF u[Len(u)] = "_"
       THEN DecimalValue(SubSeq(u, 1, Len(u) - 1))
       ELSE 10 * DecimalValue(SubSeq(u, 1, Len(u) - 1)) + DigitValue(u[Len(u)])

\* the value of int(s) when int accepts s
IntValue(s) ==
  LET t == StrStrip(s)
  IN IF t[1] = "-" THEN 0 - DecimalValue(IntBody(s)) ELSE DecimalValue(IntBody(s))

DictSet(d, k, v) == [x \in DOMAIN d \cup {k} |-> IF x = k THEN v ELSE d[x]]

amenity_dict_default ==
  [has_water_hookup |-> None,
   has_electric_hookup |-> None,
   has_sewer_hookup |-> None,
   has_sanitary_dump |-> None,
   max_rv_length |-> None,
   has_toilets |-> None,
   toilet_type |-> None,
   has_drinking_water |-> None,
   has_showers |-> None,
   accepts_reservations |-> None,
   accepts_pets |-> None,
   low_no_fee |-> None]

\* hookups, with has_rv_hookup set to True for every hookup code
rule_hookups_always_rv(d, amenity_code) ==
  IF amenity_code \in {<<"N","H">>, <<"E">>, <<"W","E">>, <<"W","E","S">>}
  THEN LET d1 == DictSet(d, "has_electric_hookup", Some(StrIn(<<"E">>, amenity_code)))
           d2 == DictSet(d1, "has_water_hookup", Some(StrIn(<<"W">>, amenity_code)))
           d3 == DictSet(d2, "has_sewer_hookup", Some(StrIn(<<"S">>, amenity_code)))
       IN DictSet(d3, "has_rv_hookup", Some(TRUE))
  ELSE d

\* hookups
rule_hookups(d, amenity_code) ==
  IF amenity_code \in {<<"N","H">>, <<"E">>, <<"W","E">>, <<"W","E","S">>}
  THEN LET d1 == DictSet(d, "has_electric_hookup", Some(StrIn(<<"E">>, amenity_code)))
           d2 == DictSet(d1, "has_water_hookup", Some(StrIn(<<"W">>, amenity_code)))
           d3 == DictSet(d2, "has_sewer_hookup", Some(StrIn(<<"S">>, amenity_code)))
       IN IF amenity_code # <<"N","H">>
          THEN DictSet(d3, "has_rv_hookup", Some(TRUE))
          ELSE DictSet(d3, "has_rv_hookup", Some(FALSE))
  ELSE d

\* sanitary dump
rule_sanitary_dump(d, amenity_code) ==
  IF amenity_code \in {<<"D","P">>, <<"N","P">>}
  THEN DictSet(d, "has_sanitary_dump", Some(amenity_code = <<"D","P">>))
  ELSE d

\* max RV length: the text int() is applied to
rv_length_text(amenity_code) == StrSplit(amenity_code, <<"f","t">>)[1]

\* max RV length: int() raises ValueError on this code
rule_max_rv_length_raises(amenity_code) ==
  /\ StrIn(<<"f","t">>, amenity_code)
  /\ ~IntAccepts(rv_length_text(amenity_code))

\* max RV length
rule_max_rv_length(d, amenity_code) ==
  IF StrIn(<<"f","t">>, amenity_code)
  THEN DictSet(d, "max_rv_length", Some(IntValue(rv_length_text(amenity_code))))
  ELSE d

toilet_map ==
  (<<"F","T">> :> "flush") @@ (<<"V","T">> :> "vault") @@
  (<<"F","T","V","T">> :> "mixed") @@ (<<"P","T">> :> "pit")

\* toilets
rule_toilets(d, amenity_code) ==
  IF amenity_code \in {<<"F","T">>, <<"V","T">>, <<"F","T","V","T">>,
                       <<"P","T">>, <<"N","T">>}
  THEN IF amenity_code = <<"N","T">>
       THEN DictSet(d, "has_toilets", Some(FALSE))
       ELSE DictSet(DictSet(d, "has_toilets", Some(TRUE)),
                    "toilet_type", Some(toilet_map[amenity_code]))
  ELSE d

\* drinking water
rule_drinking_water(d, amenity_code) ==
  IF amenity_code \in {<<"D","W">>, <<"N","W">>}
  THEN DictSet(d, "has_drinking_water", Some(amenity_code = <<"D","W">>))
  ELSE d

\* showers
rule_showers(d, amenity_code) ==
  IF amenity_code \in {<<"S","H">>, <<"N","S">>}
  THEN DictSet(d, "has_showers", Some(amenity_code = <<"S","H">>))
  ELSE d

\* reservations
rule_reservations(d, amenity_code) ==
  IF amenity_code \in {<<"R","S">>, <<"N","R">>}
  THEN DictSet(d, "accepts_reservations", Some(amenity_code = <<"R","S">>))
  ELSE d

\* pets, as a branch chained after the sanitary dump branch: 'NP' never gets here
rule_pets_elif(d, amenity_code) ==
  IF amenity_code \in {<<"P","A">>, <<"N","P">>} \ {<<"D","P">>, <<"N","P">>}
  THEN DictSet(d, "accepts_pets", Some(amenity_code = <<"P","A">>))
  ELSE d

\* pets
rule_pets(d, amenity_code) ==
  IF amenity_code \in {<<"P","A">>, <<"N","P">>}
  THEN DictSet(d, "accepts_pets", Some(amenity_code = <<"P","A">>))
  ELSE d

\* low fee, written like the two-valued rules: any other code sets False
rule_low_fee_else_false(d, amenity_code) ==
  DictSet(d, "low_no_fee", Some(amenity_code = <<"L","$">>))

\* low fee
rule_low_fee(d, amenity_code) ==
  IF amenity_code = <<"L","$">>
  THEN DictSet(d, "low_no_fee", Some(TRUE))
  ELSE d

\* one iteration of the loop over the codes: every rule is tried in turn
amenity_code_step(d, amenity_code) ==
  LET d2 == rule_sanitary_dump(rule_hookups(d, amenity_code), amenity_code)
  IN IF rule_max_rv_length_raises(amenity_code)
     THEN Raise("ValueError")
     ELSE Return(
            rule_low_fee(
              rule_pets(
                rule_reservations(
                  rule_showers(
                    rule_drinking_water(
                      rule_toilets(
                        rule_max_rv_length(d2, amenity_code),
                        amenity_code),
                      amenity_code),
                    amenity_code),
                  amenity_code),
                amenity_code),
              amenity_code))

\* for amenity_code in amenities, left to right; an exception ends the call
RECURSIVE amenities_loop(_, _)
amenities_loop(d, amenities) ==
  IF amenities = <<>>
  THEN Return(d)
  ELSE LET r == amenity_code_step(d, Head(amenities))
       IN IF r.exc # None THEN r ELSE amenities_loop(r.value, Tail(amenities))

process_campsites_amenities(amenity_str) ==
  IF amenity_str = None
  THEN Return(amenity_dict_default)
  ELSE amenities_loop(amenity_dict_default,
                      StrSplit(StrStrip(Val(amenity_str)), <<" ">>))

(***************************************************************************)
(* process_campsites_phone_number                                          *)
(***************************************************************************)
\* the run of the pattern [^0-9]+, which keeps the digits only
RECURSIVE NonAlnumRun_non_digit(_)
NonAlnumRun_non_digit(s) ==
  IF s # <<>> /\ Head(s) \notin {"0","1","2","3","4","5","6","7","8","9"}
  THEN 1 + NonAlnumRun_non_digit(Tail(s))
  ELSE 0

\* length of the longest run of characters outside [A-Za-z0-9] at the head of s
RECURSIVE NonAlnumRun(_)
NonAlnumRun(s) ==
  IF s # <<>> /\ Head(s) \notin AlnumChars THEN 1 + NonAlnumRun(Tail(s)) ELSE 0

\* re.sub("[^A-Za-z0-9]+", "", s): every maximal run matched by the pattern
\* is replaced by the empty string, scanning left to right
RECURSIVE ReSubNonAlnum(_)
ReSubNonAlnum(s) ==
  IF s = <<>>
  THEN <<>>
  ELSE LET n == NonAlnumRun(s)
       IN IF n > 0
          THEN ReSubNonAlnum(SubSeq(s, n + 1, Len(s)))
          ELSE <<Head(s)>> \o ReSubNonAlnum(Tail(s))

process_campsites_phone_number(phone_number_str) ==
  IF phone_number_str = None
  THEN None
  ELSE Some(ReSubNonAlnum(Val(phone_number_str)))

(***************************************************************************)
(* process_campsites_country                                               *)
(***************************************************************************)
canadian_provinces ==
  << <<"A","B">>, <<"B","C">>, <<"M","B">>, <<"N","B">>, <<"N","L">>,
     <<"N","T">>, <<"N","S">>, <<"N","U">>, <<"O","N">>, <<"P","E">>,
     <<"Q","C">>, <<"S","K">>, <<"Y","T">> >>

\* the membership test made on one string of all the codes
process_campsites_country_substring(state_str) ==
  IF \E i \in 1..Len(canadian_provinces) : StrIn(state_str, canadian_provinces[i])
  THEN <<"C","A","N">>
  ELSE <<"U","S","A">>

process_campsites_country(state_str) ==
  IF \E i \in 1..Len(canadian_provinces) : canadian_provinces[i] = state_str
  THEN <<"C","A","N">>
  ELSE <<"U","S","A">>

(***************************************************************************)
(* The raw strings the caller passes in.                                   *)
(***************************************************************************)
SeqsUpTo(S, n) == UNION {[1..k -> S] : k \in 0..n}

RECURSIVE Join(_, _)
Join(words, sep) ==
  IF words = <<>>
  THEN <<>>
  ELSE IF Len(words) = 1
       THEN words[1]
       ELSE words[1] \o sep \o Join(Tail(words), sep)

Optional(S) == {None} \cup {Some(s) : s \in S}

PhoneChars == {"5", "a", "Z", "(", "-", " ", "+"}

PhoneInputs == Optional(SeqsUpTo(PhoneChars, MaxPhoneLen))

StateChars ==
  {"A","B","C","E","K","L","M","N","O","P","Q","S","T","U","Y","n","o"," "}

StateInputs == SeqsUpTo(StateChars, MaxCodeLen)

DateWords ==
  { <<>>, <<"m","i","d">>, <<"l","a","t","e">>, <<"x","y","z">>,
    <<"m","a","y">>, <<"s","e","p">>, <<"o","c","t">>, <<"M","a","y">>,
    <<"l","a","t","e","s","e","p">>, <<"j","u","n","j","u","l">>,
    <<"a","l","l">>, <<"y","e","a","r">> }

DateInputs ==
  Optional({Join(w, sep) : w \in SeqsUpTo(DateWords, MaxWords),
                           sep \in {<<" ">>, <<"-">>}})

\* every code of the vocabulary, an unknown code, the empty token, and tokens
\* of the max RV length rule
AmenityWords ==
  { <<>>, <<"X","X">>, <<"n","p">>,
    <<"N","H">>, <<"E">>, <<"W","E">>, <<"W","E","S">>,
    <<"D","P">>, <<"N","P">>,
    <<"F","T">>, <<"V","T">>, <<"F","T","V","T">>, <<"P","T">>, <<"N","T">>,
    <<"D","W">>, <<"N","W">>, <<"S","H">>, <<"N","S">>,
    <<"R","S">>, <<"N","R">>, <<"P","A">>, <<"L","$">>,
    <<"3","0","f","t">>, <<"\t","4","_","0","f","t","+">>, <<"-","5","f","t">>,
    <<"f","t">>, <<"a","b","c","f","t">> }

\* the codes whose rules write the same fields, for the longer strings
OverlappingWords ==
  { <<>>, <<"X","X">>,
    <<"N","H">>, <<"E">>, <<"W","E","S">>,
    <<"D","P">>, <<"N","P">>, <<"P","A">>,
    <<"F","T">>, <<"N","T">>,
    <<"3","0","f","t">>, <<"-","5","f","t">>, <<"f","t">> }

AmenityInputs ==
  Optional({Join(w, <<" ">>) : w \in SeqsUpTo(AmenityWords, MaxTokens)
                                    \cup SeqsUpTo(OverlappingWords, MaxOverlapping)})

(***************************************************************************)
(* The caller: one call of one decoder on one raw string.                  *)
(***************************************************************************)
Init ==
  /\ call = "none"
  /\ arg = None
  /\ ret_phone_number = None
  /\ ret_dates = None
  /\ ret_country = None
  /\ ret_amenities = None
  /\ raised = None

\* the value of a call that returned, None for one that raised
ReturnValue(r) == IF r.exc = None THEN Some(r.value) ELSE None

Call_process_campsites_phone_number ==
  /\ call = "none"
  /\ \E s \in PhoneInputs :
       /\ call' = "process_campsites_phone_number"
       /\ arg' = s
       /\ ret_phone_number' = process_campsites_phone_number(s)
       /\ raised' = None
  /\ UNCHANGED <<ret_dates, ret_country, ret_amenities>>

Call_process_campsites_dates ==
  /\ call = "none"
  /\ \E s \in DateInputs :
       LET r == process_campsites_dates(s)
       IN /\ call' = "process_campsites_dates"
          /\ arg' = s
          /\ ret_dates' = ReturnValue(r)
          /\ raised' = r.exc
  /\ UNCHANGED <<ret_phone_number, ret_country, ret_amenities>>

Call_process_campsites_country ==
  /\ call = "none"
  /\ \E s \in StateInputs :
       /\ call' = "process_campsites_country"
       /\ arg' = Some(s)
       /\ ret_country' = Some(process_campsites_country(s))
       /\ raised' = None
  /\ UNCHANGED <<ret_phone_number, ret_dates, ret_amenities>>

Call_process_campsites_amenities ==
  /\ call = "none"
  /\ \E s \in AmenityInputs :
       LET r == process_campsites_amenities(s)
       IN /\ call' = "process_campsites_amenities"
          /\ arg' = s
          /\ ret_amenities' = ReturnValue(r)
          /\ raised' = r.exc
  /\ UNCHANGED <<ret_phone_number, ret_dates, ret_country>>

Next ==
  \/ Call_process_campsites_phone_number
  \/ Call_process_campsites_dates
  \/ Call_process_campsites_country
  \/ Call_process_campsites_amenities

Spec == Init /\ [][Next]_vars

(***************************************************************************)
(* Properties of the decoders.                                             *)
(***************************************************************************)
Called(f) == call = f

Returned(f) == call = f /\ raised = None

\* the record a call of process_campsites_dates returned
Dates == Val(ret_dates)

\* the record a call of process_campsites_amenities returned
Amenities == Val(ret_amenities)

\* the tokens of a season string: '-' replaced by ' ', split on single spaces
SeasonTokens == StrSplit(StrReplace(Val(arg), "-", " "), <<" ">>)

\* the tokens of an amenity string: trimmed, split on single spaces
AmenityTokens ==
  IF arg = None THEN <<>> ELSE StrSplit(StrStrip(Val(arg)), <<" ">>)

MonthAbbreviations ==
  << <<"j","a","n">>, <<"f","e","b">>, <<"m","a","r">>, <<"a","p","r">>,
     <<"m","a","y">>, <<"j","u","n">>, <<"j","u","l">>, <<"a","u","g">>,
     <<"s","e","p">>, <<"o","c","t">>, <<"n","o","v">>, <<"d","e","c">> >>

IsMonth(tok) == \E n \in 1..12 : MonthAbbreviations[n] = tok

MonthNumber(tok) == CHOOSE n \in 1..12 : MonthAbbreviations[n] = tok

HasMonth(tok) == \E n \in 1..12 : StrIn(MonthAbbreviations[n], tok)

Least(S) == CHOOSE i \in S : \A j \in S : i <= j

Greatest(S) == CHOOSE i \in S : \A j \in S : j <= i

ExactMonthTokens == {i \in 1..Len(SeasonTokens) : IsMonth(SeasonTokens[i])}

\* C1: every decoder returns a value and never raises, for every string
\* input, amenity strings with a token containing 'ft' included.
C1_NeverRaises == call # "none" => raised = None

C3_CloseMonthIsFirstContainingToken ==
  (/\ Returned("process_campsites_dates") /\ arg # None /\ Val(arg) # ALL_YEAR
   /\ ExactMonthTokens # {}
   /\ Least(ExactMonthTokens) < Len(SeasonTokens)) =>
        LET rest == SubSeq(SeasonTokens, Least(ExactMonthTokens) + 1, Len(SeasonTokens))
            containing == {i \in 1..Len(rest) : HasMonth(rest[i])}
        IN IF containing = {}
           THEN Dates.month_close = None
           ELSE /\ Dates.month_close # None
                /\ Val(Dates.month_close) \in 1..12
                /\ StrIn(MonthAbbreviations[Val(Dates.month_close)],
                         rest[Least(containing)])

TokensEqual(tok) == {i \in 1..Len(AmenityTokens) : AmenityTokens[i] = tok}

OccursAfter(tok, i) == \E j \in TokensEqual(tok) : j > i

\* C4: 'NP' fires the sanitary-dump rule and the pets rule: when the tokens
\* contain 'NP', has_sanitary_dump is false unless 'DP' occurs after the last
\* 'NP' and accepts_pets is false unless 'PA' occurs after it; the single
\* token 'NP' sets both to false and leaves every other field absent.
C4_NPFiresBothRules ==
  (Returned("process_campsites_amenities") /\ TokensEqual(<<"N","P">>) # {}) =>
     LET last == Greatest(TokensEqual(<<"N","P">>))
     IN /\ Amenities.has_sanitary_dump = Some(OccursAfter(<<"D","P">>, last))
        /\ Amenities.accepts_pets = Some(OccursAfter(<<"P","A">>, last))
        /\ AmenityTokens = << <<"N","P">> >> =>
             Amenities = [amenity_dict_default EXCEPT !.has_sanitary_dump = Some(FALSE),
                                                !.accepts_pets = Some(FALSE)]

C4_Witness ==
  /\ Returned("process_campsites_amenities")
  /\ AmenityTokens = << <<"N","P">>, <<"D","P">>, <<"X","X">> >>
  /\ Amenities.has_sanitary_dump = Some(TRUE)
  /\ Amenities.accepts_pets = Some(FALSE)

\* C5: whenever max_rv_length is present in a returned record it is a
\* non-negative integer, also when the text before 'ft' starts with a sign.
C5_MaxRvLengthNonNegative ==
  (Returned("process_campsites_amenities") /\ Amenities.max_rv_length # None) =>
     Val(Amenities.max_rv_length) >= 0

HookupTokens == {<<"N","H">>, <<"E">>, <<"W","E">>, <<"W","E","S">>}

ToiletTokens == {<<"F","T">>, <<"V","T">>, <<"F","T","V","T">>, <<"P","T">>, <<"N","T">>}

\* the tokens the rule of a field recognises
FieldRuleMatches(field, tok) ==
  CASE field \in {"has_water_hookup", "has_electric_hookup",
                  "has_sewer_hookup", "has_rv_hookup"} -> tok \in HookupTokens
    [] field = "has_sanitary_dump" -> tok \in {<<"D","P">>, <<"N","P">>}
    [] field = "max_rv_length" -> StrIn(<<"f","t">>, tok)
    [] field \in {"has_toilets", "toilet_type"} -> tok \in ToiletTokens
    [] field = "has_drinking_water" -> tok \in {<<"D","W">>, <<"N","W">>}
    [] field = "has_showers" -> tok \in {<<"S","H">>, <<"N","S">>}
    [] field = "accepts_reservations" -> tok \in {<<"R","S">>, <<"N","R">>}
    [] field = "accepts_pets" -> tok \in {<<"P","A">>, <<"N","P">>}
    [] field = "low_no_fee" -> tok = <<"L","$">>

AmenityFields == DOMAIN amenity_dict_default \cup {"has_rv_hookup"}

MatchesNoRule(tok) == \A field \in AmenityFields : ~FieldRuleMatches(field, tok)

FieldPresent(d, field) == field \in DOMAIN d /\ d[field] # None

\* the record after the first n tokens
RecordAfter(n) == amenities_loop(amenity_dict_default, SubSeq(AmenityTokens, 1, n)).value

\* C6: in a returned record a field is non-absent only if some token of the
\* input is matched by the field's own rule, and a token that matches no
\* rule leaves every field unchanged; '30ft' sets max_rv_length only.
C6_OnlyMatchedFieldsChange ==
  Returned("process_campsites_amenities") =>
     /\ DOMAIN Amenities \subseteq AmenityFields
     /\ \A field \in AmenityFields :
          FieldPresent(Amenities, field) =>
            \E i \in 1..Len(AmenityTokens) : FieldRuleMatches(field, AmenityTokens[i])
     /\ \A i \in 1..Len(AmenityTokens) :
          MatchesNoRule(AmenityTokens[i]) => RecordAfter(i) = RecordAfter(i - 1)
     /\ (arg = Some(<<"3","0","f","t">>)) =>
          Amenities = [amenity_dict_default EXCEPT !.max_rv_length = Some(30)]

C6_Witness ==
  /\ Returned("process_campsites_amenities")
  /\ Len(AmenityTokens) = 3
  /\ AmenityTokens[1] = <<"3","0","f","t">>
  /\ AmenityTokens[2] = <<>>
  /\ AmenityTokens[3] = <<"X","X">>
  /\ Amenities = [amenity_dict_default EXCEPT !.max_rv_length = Some(30)]

HookupPositions == {i \in 1..Len(AmenityTokens) : AmenityTokens[i] \in HookupTokens}

\* C7: the hookup fields are set together from the last hookup token: either
\* the three are absent and the key has_rv_hookup does not exist (no hookup
\* token), or all four are booleans, electric/water/sewer telling whether
\* the last hookup token contains 'E'/'W'/'S' and has_rv_hookup false
\* exactly when that token is 'NH', so has_rv_hookup is their disjunction.
C7_HookupFieldsFromLastToken ==
  Returned("process_campsites_amenities") =>
     IF HookupPositions = {}
     THEN /\ Amenities.has_water_hookup = None
          /\ Amenities.has_electric_hookup = None
          /\ Amenities.has_sewer_hookup = None
          /\ "has_rv_hookup" \notin DOMAIN Amenities
     ELSE LET tok == AmenityTokens[Greatest(HookupPositions)]
          IN /\ "has_rv_hookup" \in DOMAIN Amenities
             /\ Amenities.has_electric_hookup = Some(StrIn(<<"E">>, tok))
             /\ Amenities.has_water_hookup = Some(StrIn(<<"W">>, tok))
             /\ Amenities.has_sewer_hookup = Some(StrIn(<<"S">>, tok))
             /\ Amenities.has_rv_hookup = Some(tok # <<"N","H">>)
             /\ Amenities.has_rv_hookup =
                  Some(\/ Val(Amenities.has_electric_hookup)
                       \/ Val(Amenities.has_water_hookup)
                       \/ Val(Amenities.has_sewer_hookup))

C7_Witness ==
  /\ Returned("process_campsites_amenities")
  /\ AmenityTokens = << <<"W","E","S">>, <<"N","H">> >>
  /\ Amenities.has_rv_hookup = Some(FALSE)
  /\ Amenities.has_electric_hookup = Some(FALSE)

InPhoneClass(c) == c \in AlnumChars

ProvinceCodes ==
  { <<"A","B">>, <<"B","C">>, <<"M","B">>, <<"N","B">>, <<"N","L">>,
    <<"N","T">>, <<"N","S">>, <<"N","U">>, <<"O","N">>, <<"P","E">>,
    <<"Q","C">>, <<"S","K">>, <<"Y","T">> }

C10_ToiletTypeOnlyWithToilets ==
  Returned("process_campsites_amenities") =>
     (Amenities.toilet_type # None => Amenities.has_toilets = Some(TRUE))

====
